---- MODULE Spec2Model ----
(***************************************************************************)
(* Model of the queue-driven batch transcoder of video_converter           *)
(* (src/main.py): the wx main thread (button, key, drop and selection      *)
(* handlers plus the callbacks posted with wx.CallAfter), the queue_worker *)
(* threads started by on_convert, and the ffmpeg processes they spawn.     *)
(*                                                                         *)
(* Conventions:                                                            *)
(*  - a list row is a record; row_widgets[r] and the list item r are the   *)
(*    r-th element of rows (delete_row re-indexes both the same way);      *)
(*  - jid is the identity of the row's widgets dict / gauge / choice       *)
(*    objects, which a worker keeps a reference to across re-indexing;     *)
(*  - a file is <<jid, n>>: n = 0 is the source file of the job,           *)
(*    n = 1 its output <name>_conv.mp4 and n >= 2 the output candidate     *)
(*    <name>_conv_<n>.mp4, all next to the source; n = -1 is               *)
(*    <name>_conv.mp4 and n <= -2 the candidate <name>_<-n>.mp4 in the     *)
(*    save folder, which is not the folder of a source;                    *)
(*  - wx.CallAfter posts run on the main thread in posting order.  The     *)
(*    posts that change what the user can do next (the button label, and   *)
(*    enable_interface) wait in uiq, a FIFO the main thread drains between *)
(*    handlers.  A post that sets the gauge of a row takes effect in       *)
(*    posting order when it is posted.  The status text of a row is        *)
(*    write-only: the status a worker posts for the job at each queue      *)
(*    position is kept with the worker (wk[w].res), not with the row.      *)
(*    Log, progress-label and overall-gauge posts are left out.            *)
(***************************************************************************)
EXTENDS Integers, Sequences, FiniteSets, TLC

\* ---------------------------------------------------------------- bounds
MaxWorkers == 2  \* queue_worker threads the state has room for

MaxRuns  == 1    \* Spec: queue workers ever started
MaxJobs  == 2    \*       files ever added to the list
MaxActs  == 3    \*       queue actions of the user: add, remove, clear, start, cancel
MaxEdits == 2    \*       selection, settings and track events of the user

QRuns == 1       \* SpecQueue, SpecNoCancel, SpecFair: the queue alone
QJobs == 2
QActs == 3

RRuns == 2       \* SpecRace: the queue alone, with a restart
RJobs == 2
RActs == 4

DRuns == 1       \* SpecRemove: one file, all the way to a removal after a cancel
DJobs == 1
DActs == 5
DEdits == 2

PJobs == 2       \* SpecProgress: one run and its progress values
PActs == 3

CJobs == 1       \* SpecCommand: one run and the ffmpeg command of its job
CActs == 2
CEdits == 2

FJobs == 1       \* SpecPaths: one run and the output path of its job
FActs == 5
MaxSuffix == 2   \*            highest candidate number another program's file takes

AJobs == 1       \* SpecAudio: one run and the audio arguments of its job
AActs == 2
AEdits == 1

SJobs == 2       \* SpecSettings: no run, the settings panel and the selection
SActs == 2
SEdits == 4

OJobs == 2       \* SpecOverride: no run, the settings of the jobs
OActs == 2
OEdits == 5

None == -1                   \* Python None / wx.NOT_FOUND

Workers   == 1..MaxWorkers
Durations == {2}             \* seconds reported by the prober for a file
TrackCounts == {0, 2}        \* audio streams the prober finds in a file
LineTimes == {1}             \* elapsed seconds parsed from a progress line
Channels == {2}              \* "channels" ffprobe reports for the selected audio stream
ProbedChannels == {None, 0, 1, 6, 7}     \* SpecCommand; None: the probe failed
AudioCodecs == {"ac3"}       \* codec_name ffprobe reports for the audio streams of a file
ProbedCodecs == {"aac", "ac3"}           \* SpecAudio

\* what ffprobe reports of the first video stream, as far as get_hdr_info reads
\* it: a Dolby Vision profile tag, HDR10+ side data, color_transfer and
\* color_primaries (empty when there is no video stream)
SdrStream == [dolby |-> FALSE, hdr10plus |-> FALSE,
              color_transfer |-> "bt709", color_primaries |-> "bt709"]
VideoStreams == {SdrStream}
ProbedStreams ==                               \* SpecCommand
  {SdrStream,
   [SdrStream EXCEPT !.color_transfer = "", !.color_primaries = ""],
   [SdrStream EXCEPT !.dolby = TRUE, !.color_primaries = "bt2020"],
   [SdrStream EXCEPT !.hdr10plus = TRUE, !.color_transfer = "smpte2084"],
   [SdrStream EXCEPT !.color_transfer = "smpte2084", !.color_primaries = "bt2020"],
   [SdrStream EXCEPT !.color_transfer = "arib-std-b67", !.color_primaries = "bt2020"],
   [SdrStream EXCEPT !.color_primaries = "bt2020"]}

\* width and height ffprobe reports, None ("?") for both when it reports none
VideoSizes == {<< 1280, 720 >>}
ProbedSizes ==                                 \* SpecCommand
  {<< None, None >>, << 1280, 720 >>, << 1920, 1080 >>, << 1920, 1200 >>,
   << 2560, 1080 >>, << 3840, 2160 >>}

ProgressDurations == {0, 50}   \* SpecProgress: durations, 0 when unknown
ProgressTimes == {0, 29, 60}   \*               elapsed seconds


\* ------------------------------------------------------------- state
VARIABLES
  rows,                 \* list items + row_widgets, in row order
  selected,             \* selected row indexes of the list
  ctl,                  \* values of the shared settings controls
  global_settings,      \* self.global_settings (set by on_item_select)
  save_folder,          \* self.save_folder: "" (None), "dir", or "gone" (not a directory any more)
  before_sel,           \* history: the controls when the first row of the selection was selected
  converting,           \* self.converting
  cancel_event,         \* self.cancel_event.is_set()
  process,              \* self.process: the worker whose ffmpeg it refers to, or None
  current_output_file,  \* self.current_output_file
  all_jobs_duration,    \* self.all_jobs_duration
  done_duration,        \* self.done_duration
  btn_label,            \* label of btn_start: "start" or "cancel"
  btns_enabled,         \* btn_add, btn_remove, btn_clear, btn_save_folder_browse
  qpmode_enabled,       \* qp_slider and encode_mode
  vid_enabled,          \* chk_limit_res and choice_tonemap
  uiq,                  \* pending wx.CallAfter callbacks
  mainpc,               \* position of the main thread: "idle" or inside cancel_conversion
  closed,               \* the frame was destroyed (the process exits)
  wk,                   \* queue_worker threads
  started,              \* number of queue_worker threads started
  eng,                  \* the ffmpeg process last spawned by each worker
  orphans,              \* ffmpeg processes still alive whose worker spawned another one
  fs,                   \* the files that exist on disk
  nadds,                \* files added so far (the next jid is nadds + 1)
  nact,                 \* queue actions of the user so far
  nui,                  \* user selection / edit events so far
  lim                   \* the bounds of the exploration, fixed by the initial state

vars == << rows, selected, ctl, global_settings, before_sel, save_folder, converting, cancel_event, process,
           current_output_file, all_jobs_duration, done_duration, btn_label,
           btns_enabled, qpmode_enabled, vid_enabled, uiq, mainpc, closed,
           wk, started, eng, orphans, fs, nadds, nact, nui, lim >>

mainVars == << converting, cancel_event, process, current_output_file,
               all_jobs_duration, done_duration >>
uiVars   == << btn_label, btns_enabled, qpmode_enabled, vid_enabled >>
setVars  == << ctl, global_settings, before_sel, save_folder >>
envVars  == << fs >>

\* ------------------------------------------------------------- helpers
NoPath == << >>              \* no output path (Python None)

\* add_row's settings dict: "global" is True and the other fields are the empty
\* string, modelled by its truth value (FALSE) or by None.
RowSettingsInit ==
  [global |-> TRUE, encode_mode |-> None, qp_slider |-> None, limit_res |-> FALSE,
   tonemapping |-> None, skip_video |-> FALSE, skip_audio |-> FALSE]

\* get_current_settings, with c the values of the controls
get_current_settings(c) ==
  [global |-> FALSE, encode_mode |-> c.encode_mode, qp_slider |-> c.qp_slider,
   limit_res |-> c.limit_res, tonemapping |-> c.tonemapping,
   skip_video |-> c.skip_video, skip_audio |-> c.skip_audio]

RECURSIVE SumDur(_)
SumDur(rs) == IF rs = << >> THEN 0 ELSE Head(rs).duration + SumDur(Tail(rs))

\* the n-th output candidate of source src, in the save folder or next to src
Candidate(inFolder, src, n) == IF inFolder THEN << src, -n >> ELSE << src, n >>

\* the while loop of unique_output_path: the first candidate from n on that
\* does not exist
RECURSIVE NextFree(_, _, _, _)
NextFree(files, inFolder, src, n) ==
  IF Candidate(inFolder, src, n) \notin files THEN Candidate(inFolder, src, n)
  ELSE NextFree(files, inFolder, src, n + 1)

\* a faulty unique_output_path, which never looks at the disk
unique_output_path_overwrite(folder, files, src) == Candidate(folder = "dir", src, 1)

\* unique_output_path: the save folder is used if it is set and is a directory;
\* <name>_conv.mp4 if it does not exist, else the first suffixed candidate
\* (n = 2, 3, ...) that does not
unique_output_path(folder, files, src) ==
  LET inFolder == folder = "dir"
  IN  IF Candidate(inFolder, src, 1) \notin files THEN Candidate(inFolder, src, 1)
      ELSE NextFree(files, inFolder, src, 2)

\* ---- Python float arithmetic: IEEE 754 binary64, round to nearest, ties to even.
\* A natural number too large for an integer of the checker is a sequence of
\* digits in base Limb, least significant first, with no leading zero digit.
Limb == 65536
Precision == 53              \* bits of a binary64 significand

RECURSIVE Pow2(_)
Pow2(n) == IF n = 0 THEN 1 ELSE 2 * Pow2(n - 1)

RECURSIVE BitLenInt(_)
BitLenInt(n) == IF n = 0 THEN 0 ELSE 1 + BitLenInt(n \div 2)

RECURSIVE Norm(_)
Norm(x) == IF x # << >> /\ x[Len(x)] = 0 THEN Norm(SubSeq(x, 1, Len(x) - 1)) ELSE x

RECURSIVE BigOf(_)
BigOf(n) == IF n = 0 THEN << >> ELSE << n % Limb >> \o BigOf(n \div Limb)

RECURSIVE BigToInt(_)
BigToInt(x) == IF x = << >> THEN 0 ELSE Head(x) + Limb * BigToInt(Tail(x))

BitLen(x) == IF x = << >> THEN 0 ELSE 16 * (Len(x) - 1) + BitLenInt(x[Len(x)])

Odd(x) == x # << >> /\ Head(x) % 2 = 1

\* x * k + c, for k <= 32767
RECURSIVE BigMulC(_, _, _)
BigMulC(x, k, c) ==
  IF x = << >> THEN BigOf(c)
  ELSE LET p == Head(x) * k + c IN << p % Limb >> \o BigMulC(Tail(x), k, p \div Limb)

BigMul(x, k) == Norm(BigMulC(x, k, 0))

\* quotient (not normalised) and remainder of x by k, for k <= 32768
RECURSIVE BigDivMod(_, _)
BigDivMod(x, k) ==
  IF x = << >> THEN [q |-> << >>, r |-> 0]
  ELSE LET hi  == BigDivMod(Tail(x), k)
           cur == hi.r * Limb + Head(x)
       IN  [q |-> << cur \div k >> \o hi.q, r |-> cur % k]

RECURSIVE BigInc(_)
BigInc(x) ==
  IF x = << >> THEN << 1 >>
  ELSE IF Head(x) + 1 < Limb THEN << Head(x) + 1 >> \o Tail(x)
  ELSE << 0 >> \o BigInc(Tail(x))

RECURSIVE Shl(_, _)
Shl(x, j) == IF j = 0 THEN x
             ELSE IF j >= 14 THEN Shl(BigMul(x, Pow2(14)), j - 14)
             ELSE BigMul(x, Pow2(j))

RECURSIVE Shr(_, _)
Shr(x, j) == IF j = 0 THEN x
             ELSE IF j >= 14 THEN Shr(Norm(BigDivMod(x, Pow2(14)).q), j - 14)
             ELSE Norm(BigDivMod(x, Pow2(j)).q)

\* a float >= 0 is m * 2^e with m = 0 or m of exactly Precision bits
FloatZero == [m |-> << >>, e |-> 0]

\* the float for the truncated significand q at exponent e, rounded up or not
Rounded(q, up, e) ==
  LET m == IF up THEN BigInc(q) ELSE q
  IN  IF BitLen(m) > Precision THEN [m |-> Shr(m, 1), e |-> e + 1] ELSE [m |-> m, e |-> e]

\* a / b for floats with the integer values a >= 0 and b > 0
FloatDiv(a, b) ==
  IF a = 0 THEN FloatZero
  ELSE LET s0 == Precision - BitLenInt(a) + BitLenInt(b)
           d0 == BigDivMod(Shl(BigOf(a), s0), b)
           s  == IF BitLen(Norm(d0.q)) > Precision THEN s0 - 1 ELSE s0
           d  == IF s = s0 THEN d0 ELSE BigDivMod(Shl(BigOf(a), s), b)
           up == 2 * d.r > b \/ (2 * d.r = b /\ Odd(d.q))
       IN  Rounded(Norm(d.q), up, -s)

\* x * k for a float x and the integer value k > 0
FloatMul(x, k) ==
  IF x.m = << >> THEN FloatZero
  ELSE LET p     == BigMul(x.m, k)
           extra == BitLen(p) - Precision
           d     == BigDivMod(p, Pow2(extra))
           half  == Pow2(extra - 1)
           up    == d.r > half \/ (d.r = half /\ Odd(d.q))
       IN  IF extra = 0 THEN [m |-> p, e |-> x.e]
           ELSE Rounded(Norm(d.q), up, x.e + extra)

\* int(x) for a float x >= 0
FloatInt(x) ==
  IF x.e >= 0 THEN BigToInt(Shl(x.m, x.e)) ELSE BigToInt(Shr(x.m, -x.e))

\* min(int(a / b * 100), 100)
Percent(a, b) ==
  LET p == FloatInt(FloatMul(FloatDiv(a, b), 100))
  IN  IF p < 100 THEN p ELSE 100

\* Percent on the operands that occur with the durations and elapsed times of
\* this module, computed once: the durations of up to MaxSummed files add up to
\* a total, and a progress line adds its elapsed time to the part that is done
MaxSummed == 4
RECURSIVE Totals(_)
Totals(k) ==
  IF k = 0 THEN {0}
  ELSE {s + d : s \in Totals(k - 1), d \in {0} \cup Durations \cup ProgressDurations}
PercentOperands ==
  {<< done + t, IF all > 1 THEN all ELSE 1 >> :
     done \in Totals(MaxSummed), t \in LineTimes \cup ProgressTimes,
     all \in Totals(MaxSummed)}
PercentTable == [p \in PercentOperands |-> Percent(p[1], p[2])]
PercentOf(a, b) ==
  IF << a, b >> \in PercentOperands THEN PercentTable[<< a, b >>] ELSE Percent(a, b)

\* a faulty RowProgress, without the min(..., 100)
RowProgressUnclamped(t, dur) ==
  FloatInt(FloatMul(FloatDiv(t, IF dur > 1 THEN dur ELSE 1), 100))

\* row_progress: total_duration = max(float(duration or 0.0), 1.0)
RowProgress(t, dur) == PercentOf(t, IF dur > 1 THEN dur ELSE 1)

\* overall_progress, with rp the row progress of the same line
OverallProgress(done, t, all, rp) == IF all > 0 THEN PercentOf(done + t, all) ELSE rp

\* ---- the ffmpeg command line
\* get_audio_channels: int(channels or 2), and 2 when the probe fails
get_audio_channels(probed) == IF probed = None \/ probed = 0 THEN 2 ELSE probed

\* a faulty get_audio_bitrate, which has no case for 7 channels
get_audio_bitrate_no_7(channels) ==
  IF channels <= 1 THEN "128k"
  ELSE IF channels = 2 THEN "192k"
  ELSE IF channels <= 6 THEN "384k"
  ELSE "512k"

get_audio_bitrate(channels) ==
  IF channels <= 1 THEN "128k"
  ELSE IF channels = 2 THEN "192k"
  ELSE IF channels <= 6 THEN "384k"
  ELSE IF channels >= 8 THEN "512k"
  ELSE "256k"

\* get_hdr_info: the classification of the stream and its recommendation
get_hdr_info(stream) ==
  IF stream.dolby
    THEN [type |-> "Dolby Vision", requires_tonemap |-> TRUE]
  ELSE IF stream.hdr10plus
    THEN [type |-> "HDR10+", requires_tonemap |-> TRUE]
  ELSE IF stream.color_transfer = "smpte2084"
    THEN [type |-> "HDR10 / PQ", requires_tonemap |-> TRUE]
  ELSE IF stream.color_transfer \in {"arib-std-b67", "hlg"}
    THEN [type |-> "HLG", requires_tonemap |-> FALSE]
  ELSE IF stream.color_primaries = "bt2020"
    THEN [type |-> "BT.2020 SDR", requires_tonemap |-> FALSE]
  ELSE [type |-> "SDR", requires_tonemap |-> FALSE]

\* the result dict get_hdr_info starts from
HdrDefault == [type |-> "SDR", requires_tonemap |-> FALSE]

\* a faulty needs_tonemap, which always follows the recommendation
needs_tonemap_auto(tonemap_mode, auto_tonemap) == auto_tonemap

\* needs_tonemap: 2 forces it off, 1 forces it on, anything else is automatic
needs_tonemap(tonemap_mode, auto_tonemap) ==
  IF tonemap_mode = 2 THEN FALSE
  ELSE IF tonemap_mode = 1 THEN TRUE
  ELSE auto_tonemap

\* a faulty ScaleNeeded, which wants both dimensions too large
ScaleNeededBoth(size) ==
  LET bad == size[1] = None \/ size[2] = None
      w == IF bad THEN 0 ELSE size[1]
      h == IF bad THEN 0 ELSE size[2]
  IN  w > 1920 /\ h > 1080

\* w = int(width or 0), h = int(height or 0), both 0 when int("?") raises;
\* the scale filter is wanted if w > 1920 or h > 1080
ScaleNeeded(size) ==
  LET bad == size[1] = None \/ size[2] = None
      w == IF bad THEN 0 ELSE size[1]
      h == IF bad THEN 0 ELSE size[2]
  IN  w > 1920 \/ h > 1080

\* the filters of -vf, in order
TonemapChain == << "zscale=t=linear:npl=30", "format=gbrpf32le", "zscale=p=bt709",
                   "tonemap=hable:param=1.5:desat=0", "zscale=t=bt709:m=bt709:r=pc",
                   "format=yuv420p" >>
PixelFormat == << "format=yuv420p" >>
ScaleFilter == << "scale" >>

vf_filter(tonemap, scale) ==
  (IF tonemap THEN TonemapChain ELSE PixelFormat) \o (IF scale THEN ScaleFilter ELSE << >>)

\* no command yet
NoCommand == [video |-> "", vf |-> << >>, rate |-> << >>, audio |-> << >>]

\* a faulty Command, which copies the audio as well when the video is copied
CommandCopyAll(eff, hdr, size, channels, bitrate) ==
  [video |-> IF eff.skip_video THEN "copy" ELSE "h264_nvenc",
   vf    |-> IF eff.skip_video THEN << >>
             ELSE vf_filter(needs_tonemap(eff.tonemapping, hdr.requires_tonemap),
                            eff.limit_res /\ ScaleNeeded(size)),
   rate  |-> IF eff.skip_video THEN << >>
             ELSE IF eff.encode_mode = 0 THEN << "-cq", eff.qp_slider >>
             ELSE << "-b:v", eff.qp_slider * 1000 >>,
   audio |-> IF eff.skip_audio \/ eff.skip_video THEN << "copy" >>
             ELSE << "aac", channels, bitrate >>]

\* cmd: the video codec with its filters and rate control, and the audio codec;
\* hdr and size are the probe results, read only when they are needed
Command(eff, hdr, size, channels, bitrate) ==
  [video |-> IF eff.skip_video THEN "copy" ELSE "h264_nvenc",
   vf    |-> IF eff.skip_video THEN << >>
             ELSE vf_filter(needs_tonemap(eff.tonemapping, hdr.requires_tonemap),
                            eff.limit_res /\ ScaleNeeded(size)),
   rate  |-> IF eff.skip_video THEN << >>
             ELSE IF eff.encode_mode = 0 THEN << "-cq", eff.qp_slider >>
             ELSE << "-b:v", eff.qp_slider * 1000 >>,
   audio |-> IF eff.skip_audio THEN << "copy" >> ELSE << "aac", channels, bitrate >>]

\* a process record; out and opened describe a running process only
EngineInit ==
  [st |-> "none", rc |-> 0, out |-> NoPath, opened |-> FALSE]

\* Popen.terminate() / taskkill on Windows: the process is gone, its exit code nonzero
Kill(e, h) == [e EXCEPT ![h] = [EngineInit EXCEPT !.st = "exited", !.rc = 1]]

\* wx.CallAfter(gauge.SetValue, g) for the gauge object of job j, which the
\* worker holds; a gauge destroyed with its row is not in rs any more
SetGauge(rs, j, g) ==
  [i \in DOMAIN rs |-> IF rs[i].jid = j THEN [rs[i] EXCEPT !.gauge = g] ELSE rs[i]]

\* the locals of one loop iteration, dead once the iteration ends
NextIteration(r) ==
  [r EXCEPT !.jid = None, !.dur = 0, !.track = None, !.out = NoPath,
            !.audio_channels = 0, !.bitrate = "",
            !.hdr = HdrDefault, !.size = << None, None >>, !.cmd = NoCommand,
            !.settings = RowSettingsInit, !.eff = RowSettingsInit,
            !.current_time = 0, !.row_progress = 0, !.overall_progress = 0,
            !.ok = FALSE, !.how = ""]

WorkerInit ==
  [pc |-> "idle", nkeys |-> 0, idx |-> 0, jid |-> None, dur |-> 0, track |-> None,
   out |-> NoPath, audio_channels |-> 0, bitrate |-> "",
   hdr |-> HdrDefault, size |-> << None, None >>, cmd |-> NoCommand,
   settings |-> RowSettingsInit, eff |-> RowSettingsInit,
   current_time |-> 0, row_progress |-> 0, overall_progress |-> 0,
   ok |-> FALSE, how |-> "",
   res |-> << >>, hows |-> << >>, durs |-> << >>, cidx |-> None, cout |-> NoPath]

Alive(w) == wk[w].pc \notin {"idle", "done"}

\* Destroy() ends the main loop and with it the process and its daemon threads:
\* of the state only the files on disk remain
Destroyed ==
  /\ closed' = TRUE
  /\ rows' = << >> /\ selected' = {} /\ UNCHANGED setVars
  /\ converting' = FALSE /\ cancel_event' = FALSE /\ process' = None
  /\ current_output_file' = NoPath /\ all_jobs_duration' = 0 /\ done_duration' = 0
  /\ btn_label' = "start" /\ btns_enabled' = FALSE /\ qpmode_enabled' = FALSE
  /\ vid_enabled' = FALSE
  /\ uiq' = << >> /\ mainpc' = "idle"
  /\ wk' = [w \in Workers |-> WorkerInit]
  /\ eng' = [w \in Workers |-> EngineInit]
  /\ UNCHANGED << started, orphans, nadds, nact, nui, lim >>

\* ---------------------------------------------------------------- Init
\* State after VideoConverter.__init__ on a machine without the two hard-coded
\* test files (add_files skips paths that are not files) and without a stored
\* save folder.
Constructed ==
  /\ rows = << >>
  /\ selected = {}
  /\ ctl = [encode_mode |-> 0, qp_slider |-> 22, limit_res |-> FALSE, tonemapping |-> 0,
            skip_video |-> FALSE, skip_audio |-> FALSE]
  /\ global_settings = RowSettingsInit
  /\ before_sel = ctl
  /\ save_folder = ""
  /\ converting = FALSE
  /\ cancel_event = FALSE
  /\ process = None
  /\ current_output_file = NoPath
  /\ all_jobs_duration = 0
  /\ done_duration = 0
  /\ btn_label = "start"
  /\ btns_enabled = TRUE
  /\ qpmode_enabled = TRUE
  /\ vid_enabled = TRUE
  /\ uiq = << >>
  /\ mainpc = "idle"
  /\ closed = FALSE
  /\ wk = [w \in Workers |-> WorkerInit]
  /\ started = 0
  /\ eng = [w \in Workers |-> EngineInit]
  /\ orphans = 0
  /\ fs = {}
  /\ nadds = 0
  /\ nact = 0
  /\ nui = 0

Limits(r, j, a, e) ==
  lim = [runs |-> r, jobs |-> j, acts |-> a, edits |-> e,
         durs |-> Durations, times |-> LineTimes, chans |-> Channels,
         streams |-> VideoStreams, sizes |-> VideoSizes, codecs |-> AudioCodecs]

Init == Constructed /\ Limits(MaxRuns, MaxJobs, MaxActs, MaxEdits)

\* ------------------------------------------------- main thread: the queue
MainIdle == mainpc = "idle" /\ ~closed

\* one more queue action of the user
Act == nact < lim.acts /\ nact' = nact + 1

\* add_files for one path that is a file (drag-and-drop on the panel, or the file
\* dialog of btn_add): get_audio_tracks (n tracks, whose codec name goes into
\* the items of the row's choice), get_video_info, add_row.  The drop target
\* is not disabled by disable_interface and add_files does not look at converting.
AddFile(d, n) ==
  /\ MainIdle
  /\ Act
  /\ nadds < lim.jobs
  /\ nadds' = nadds + 1
  /\ fs' = fs \cup {<< nadds + 1, 0 >>}
  /\ \E codec \in lim.codecs :
       rows' = Append(rows,
         [jid |-> nadds + 1, duration |-> d, ntracks |-> n, codec |-> codec,
          track |-> IF n > 0 THEN 0 ELSE None,
          gauge |-> 0, settings |-> RowSettingsInit,
          output_file |-> NoPath])
  /\ UNCHANGED << selected, setVars, mainVars, uiVars, uiq, mainpc, closed,
                  wk, started, eng, orphans, nui, lim >>

\* delete_row: list.DeleteItem(row) and the re-indexing of row_widgets
delete_row(rs, row) == [i \in 1..(Len(rs) - 1) |-> IF i < row THEN rs[i] ELSE rs[i + 1]]

FirstSelected == CHOOSE r \in selected : \A q \in selected : r <= q

\* on_remove_selected, reached from the Delete key of the list (on_key_down), from
\* btn_remove and from the context menu: only self.converting guards it.
OnRemoveSelected ==
  /\ MainIdle
  /\ Act
  /\ ~converting
  /\ selected # {}
  /\ rows' = delete_row(rows, FirstSelected)
  /\ selected' = {IF q < FirstSelected THEN q ELSE q - 1 : q \in selected \ {FirstSelected}}
  /\ UNCHANGED << setVars, mainVars, uiVars, uiq, mainpc, closed,
                  wk, started, eng, orphans, envVars, nadds, nui, lim >>

\* on_clear, from btn_clear (when enabled) or from the context menu of a row
OnClear ==
  /\ MainIdle
  /\ Act
  /\ ~converting
  /\ rows # << >>
  /\ btns_enabled \/ selected # {}
  /\ rows' = << >>
  /\ selected' = {}
  /\ UNCHANGED << setVars, mainVars, uiVars, uiq, mainpc, closed,
                  wk, started, eng, orphans, envVars, nadds, nui, lim >>

\* cancel_conversion up to its time.sleep(0.5): set the event and terminate the
\* process self.process refers to, if it still runs.  At a cancel request the
\* worker records which job it was executing (wk[w].cidx, wk[w].cout: history only).
CancelBegin ==
  /\ cancel_event' = TRUE
  /\ eng' = IF process # None /\ eng[process].st = "alive" THEN Kill(eng, process) ELSE eng
  /\ mainpc' = "cancel"
  /\ wk' = [w \in Workers |->
       [wk[w] EXCEPT
          !.cidx = IF wk[w].pc \in {"read", "wait"} /\ eng[w].st = "alive" /\ @ = None
                   THEN wk[w].idx ELSE @,
          !.cout = IF wk[w].pc \in {"spawn", "read", "wait", "result"} /\ @ = NoPath
                   THEN wk[w].out ELSE @]]
  /\ UNCHANGED << rows, selected, setVars, converting, process, current_output_file,
                  all_jobs_duration, done_duration, uiVars, uiq, closed, started,
                  orphans, envVars, nadds, nui, lim >>

\* os.remove(current_output_file) in cancel_conversion, with e the processes
\* then: a file a running ffmpeg holds open cannot be removed (the error is logged)
RemoveCurrent(e) ==
  IF current_output_file # NoPath /\ current_output_file \in fs
     /\ ~\E w \in Workers : e[w].st = "alive" /\ e[w].opened
                            /\ e[w].out = current_output_file
  THEN fs \ {current_output_file} ELSE fs

\* the rest of cancel_conversion: remove the current output file, forget the
\* process, leave the running state
CancelFinish ==
  /\ mainpc = "cancel" /\ ~closed
  /\ fs' = RemoveCurrent(eng)
  /\ process' = None
  /\ converting' = FALSE
  /\ uiq' = Append(uiq, [kind |-> "label"])
  /\ mainpc' = "idle"
  /\ UNCHANGED << rows, selected, setVars, cancel_event, current_output_file,
                  all_jobs_duration, done_duration, uiVars, closed,
                  wk, started, eng, orphans, nadds, nact, nui, lim >>

\* on_convert with converting false and a non-empty queue: start a queue_worker
StartRun ==
  /\ ~converting
  /\ rows # << >>
  /\ started < lim.runs
  /\ all_jobs_duration' = SumDur(rows)
  /\ done_duration' = 0
  /\ cancel_event' = FALSE
  /\ converting' = TRUE
  /\ btn_label' = "cancel"
  /\ btns_enabled' = FALSE
  /\ qpmode_enabled' = FALSE
  /\ started' = started + 1
  /\ wk' = [wk EXCEPT ![started + 1].pc = "start"]
  /\ UNCHANGED << rows, selected, setVars, process, current_output_file, vid_enabled,
                  uiq, mainpc, closed, eng, orphans, envVars, nadds, nui, lim >>

\* on_convert (btn_start): cancel when converting, else start
OnConvert ==
  /\ MainIdle
  /\ Act
  /\ \/ converting /\ CancelBegin
     \/ StartRun

\* on_close: with a conversion running the user confirms and cancel_conversion
\* runs (here in one step) before Destroy(); otherwise Destroy() at once
OnClose ==
  /\ MainIdle
  /\ fs' = IF converting
           THEN RemoveCurrent(IF process # None /\ eng[process].st = "alive"
                              THEN Kill(eng, process) ELSE eng)
           ELSE fs
  /\ Destroyed

\* browse_save_folder: the user picks a directory in the dialog of
\* btn_save_folder_browse
BrowseSaveFolder ==
  /\ MainIdle
  /\ Act
  /\ btns_enabled
  /\ save_folder' = "dir"
  /\ UNCHANGED << rows, selected, ctl, global_settings, before_sel, mainVars, uiVars,
                  uiq, mainpc, closed, wk, started, eng, orphans, envVars, nadds, nui, lim >>

\* one callback posted with wx.CallAfter runs on the main thread
ProcessCallback ==
  /\ MainIdle
  /\ uiq # << >>
  /\ uiq' = Tail(uiq)
  /\ LET e == Head(uiq) IN
       \/ /\ e.kind = "label"               \* btn_start.SetLabel (cancel_conversion)
          /\ btn_label' = "start"
          /\ UNCHANGED << btns_enabled, qpmode_enabled, vid_enabled >>
       \/ /\ e.kind = "finish"              \* btn_start.SetLabel, enable_interface
          /\ btn_label' = "start"
          /\ btns_enabled' = TRUE
          /\ qpmode_enabled' = TRUE
          /\ UNCHANGED vid_enabled
  /\ UNCHANGED << rows, selected, setVars, mainVars, mainpc, closed,
                  wk, started, eng, orphans, envVars, nadds, nact, nui, lim >>

\* --------------------------------------- main thread: selection and settings
\* one more selection, settings or track event of the user
Edit == MainIdle /\ nui < lim.edits /\ nui' = nui + 1

EditRest == << mainVars, btn_label, btns_enabled, uiq, mainpc, closed,
               wk, started, eng, orphans, envVars, nadds, nact, lim >>

\* a faulty save_settings_to_sel_rows, which writes to every row of the list
save_settings_to_all_rows(rs, sel, settings) ==
  [i \in DOMAIN rs |-> [rs[i] EXCEPT !.settings = settings]]

\* save_settings_to_sel_rows_and_update_list: every selected row gets the
\* settings read from the controls
save_settings_to_sel_rows(rs, sel, settings) ==
  [i \in DOMAIN rs |-> IF i \in sel THEN [rs[i] EXCEPT !.settings = settings] ELSE rs[i]]

\* the end of each settings handler
Saved(c) ==
  /\ ctl' = c
  /\ rows' = save_settings_to_sel_rows(rows, selected, get_current_settings(c))
  /\ UNCHANGED << selected, global_settings, before_sel, save_folder >>

\* on_limit_res: the check box chk_limit_res was toggled
OnLimitRes ==
  /\ Edit
  /\ vid_enabled
  /\ Saved([ctl EXCEPT !.limit_res = ~@])
  /\ UNCHANGED << qpmode_enabled, vid_enabled, EditRest >>

\* on_tonemapping: choice_tonemap was set to m
OnTonemapping(m) ==
  /\ Edit
  /\ vid_enabled
  /\ m # ctl.tonemapping
  /\ Saved([ctl EXCEPT !.tonemapping = m])
  /\ UNCHANGED << qpmode_enabled, vid_enabled, EditRest >>

\* on_skip_audio: chk_skip_audio was toggled
OnSkipAudio ==
  /\ Edit
  /\ Saved([ctl EXCEPT !.skip_audio = ~@])
  /\ UNCHANGED << qpmode_enabled, vid_enabled, EditRest >>

\* on_skip_video: chk_skip_video was toggled; the video controls follow it
OnSkipVideo ==
  /\ Edit
  /\ vid_enabled' = ctl.skip_video
  /\ qpmode_enabled' = ctl.skip_video
  /\ Saved([ctl EXCEPT !.skip_video = ~@])
  /\ UNCHANGED EditRest

\* a faulty OnModeChange, which gives the slider the default of the other mode
OnModeChangeOtherDefault(m) ==
  /\ Edit
  /\ qpmode_enabled
  /\ m # ctl.encode_mode
  /\ Saved([ctl EXCEPT !.encode_mode = m, !.qp_slider = IF m = 0 THEN 8 ELSE 22])
  /\ UNCHANGED << qpmode_enabled, vid_enabled, EditRest >>

\* on_mode_change: the radio box was set to mode m; the slider gets that mode's
\* range and default
OnModeChange(m) ==
  /\ Edit
  /\ qpmode_enabled
  /\ m # ctl.encode_mode
  /\ Saved([ctl EXCEPT !.encode_mode = m, !.qp_slider = IF m = 0 THEN 22 ELSE 8])
  /\ UNCHANGED << qpmode_enabled, vid_enabled, EditRest >>

\* the slider range SetRange gives each mode
SliderMin(m) == IF m = 0 THEN 14 ELSE 2
SliderMax(m) == IF m = 0 THEN 30 ELSE 25

\* on_qp_change: the slider was moved to v
OnQpChange(v) ==
  /\ Edit
  /\ qpmode_enabled
  /\ v # ctl.qp_slider
  /\ SliderMin(ctl.encode_mode) <= v /\ v <= SliderMax(ctl.encode_mode)
  /\ Saved([ctl EXCEPT !.qp_slider = v])
  /\ UNCHANGED << qpmode_enabled, vid_enabled, EditRest >>

\* the user picks audio track t in the wx.Choice of row r
ChoiceTrack(r, t) ==
  /\ Edit
  /\ r \in DOMAIN rows
  /\ t < rows[r].ntracks /\ t # rows[r].track
  /\ rows' = [rows EXCEPT ![r].track = t]
  /\ UNCHANGED << selected, setVars, qpmode_enabled, vid_enabled, EditRest >>

\* on_item_select: row r joins the selection
OnItemSelect(r) ==
  /\ Edit
  /\ r \in DOMAIN rows /\ r \notin selected
  /\ selected' = selected \cup {r}
  /\ global_settings' = get_current_settings(ctl)
  /\ before_sel' = IF selected = {} THEN ctl ELSE before_sel
  /\ UNCHANGED << rows, ctl, save_folder, qpmode_enabled, vid_enabled, EditRest >>

\* wx.Slider.SetValue keeps the value inside the range
Clamp(v, m) == IF v < SliderMin(m) THEN SliderMin(m)
               ELSE IF v > SliderMax(m) THEN SliderMax(m) ELSE v

\* reset_global_settings: the controls go back to global_settings.  With
\* skip_video set it calls self.on_skip_video() without the event argument, which
\* raises TypeError before chk_skip_audio is restored.
reset_global_settings(c, gs) ==
  LET base == [c EXCEPT !.encode_mode = gs.encode_mode,
                        !.qp_slider = Clamp(gs.qp_slider, gs.encode_mode),
                        !.limit_res = gs.limit_res,
                        !.tonemapping = gs.tonemapping,
                        !.skip_video = gs.skip_video]
  IN  IF gs.skip_video THEN base ELSE [base EXCEPT !.skip_audio = gs.skip_audio]

\* a faulty OnItemDeselect, which also returns the row to the global settings
OnItemDeselectForgets(r) ==
  /\ Edit
  /\ r \in selected
  /\ selected' = selected \ {r}
  /\ ctl' = reset_global_settings(ctl, global_settings)
  /\ rows' = [rows EXCEPT ![r].settings = RowSettingsInit]
  /\ UNCHANGED << global_settings, before_sel, save_folder, qpmode_enabled,
                  vid_enabled, EditRest >>

\* on_item_deselect: row r leaves the selection
OnItemDeselect(r) ==
  /\ Edit
  /\ r \in selected
  /\ selected' = selected \ {r}
  /\ ctl' = reset_global_settings(ctl, global_settings)
  /\ UNCHANGED << rows, global_settings, before_sel, save_folder, qpmode_enabled,
                  vid_enabled, EditRest >>

SliderInputs == {14, 25}     \* slider positions the user moves to

UserEdit ==
  \/ OnLimitRes
  \/ \E m \in 0..2 : OnTonemapping(m)
  \/ OnSkipAudio
  \/ OnSkipVideo
  \/ \E m \in 0..1 : OnModeChange(m)
  \/ \E v \in SliderInputs : OnQpChange(v)
  \/ \E r \in DOMAIN rows, t \in 0..1 : ChoiceTrack(r, t)
  \/ \E r \in DOMAIN rows : OnItemSelect(r)
  \/ \E r \in selected : OnItemDeselect(r)

\* ------------------------------------------------------------ queue_worker
\* thread entry: current_output_file = None and the snapshot sorted(row_widgets.keys())
WorkerStart(w) ==
  /\ ~closed
  /\ wk[w].pc = "start"
  /\ current_output_file' = NoPath
  /\ wk' = [wk EXCEPT ![w].pc = "loop", ![w].nkeys = Len(rows), ![w].idx = 1]
  /\ UNCHANGED << rows, selected, setVars, converting, cancel_event, process,
                  all_jobs_duration, done_duration, uiVars, uiq, mainpc,
                  closed, started, eng, orphans, envVars, nadds, nact, nui, lim >>

\* a job is skipped: status and gauge are posted and the loop continues
Skip(w, s) ==
  /\ rows' = SetGauge(rows, rows[wk[w].idx].jid, 0)
  /\ wk' = [wk EXCEPT ![w].idx = @ + 1,
                      ![w].res = Append(@, s), ![w].hows = Append(@, "skip"),
                      ![w].durs = Append(@, rows[wk[w].idx].duration)]

\* a faulty WorkerLoop, without the audio-track check: a row with no track
\* selected is converted like any other
WorkerLoopNoTrackCheck(w) ==
  /\ ~closed
  /\ wk[w].pc = "loop"
  /\ IF wk[w].idx > wk[w].nkeys \/ cancel_event \/ wk[w].idx \notin DOMAIN rows
       THEN wk' = [wk EXCEPT ![w].pc = "finally"] /\ UNCHANGED rows
     ELSE IF << rows[wk[w].idx].jid, 0 >> \notin fs
       THEN Skip(w, "NoFile")
     ELSE /\ wk' = [wk EXCEPT ![w].pc = "path",
                              ![w].jid = rows[wk[w].idx].jid,
                              ![w].dur = rows[wk[w].idx].duration,
                              ![w].track = rows[wk[w].idx].track]
          /\ UNCHANGED rows
  /\ UNCHANGED << selected, setVars, mainVars, uiVars, uiq, mainpc,
                  closed, started, eng, orphans, envVars, nadds, nact, nui, lim >>

\* loop head: the cancel check, then the source-file check and the audio-track
\* check of the row at this index.  A row index that left row_widgets raises
\* KeyError, which ends the thread through its finally clause.
WorkerLoop(w) ==
  /\ ~closed
  /\ wk[w].pc = "loop"
  /\ IF wk[w].idx > wk[w].nkeys \/ cancel_event \/ wk[w].idx \notin DOMAIN rows
       THEN wk' = [wk EXCEPT ![w].pc = "finally"] /\ UNCHANGED rows
     ELSE IF << rows[wk[w].idx].jid, 0 >> \notin fs
       THEN Skip(w, "NoFile")
     ELSE IF rows[wk[w].idx].track = None
       THEN Skip(w, "NoAudio")
     ELSE /\ wk' = [wk EXCEPT ![w].pc = "path",
                              ![w].jid = rows[wk[w].idx].jid,
                              ![w].dur = rows[wk[w].idx].duration,
                              ![w].track = rows[wk[w].idx].track]
          /\ UNCHANGED rows
  /\ UNCHANGED << selected, setVars, mainVars, uiVars, uiq, mainpc,
                  closed, started, eng, orphans, envVars, nadds, nact, nui, lim >>

\* get_audio_channels (ffprobe reports c), get_audio_bitrate, unique_output_path,
\* the "converting" status, then current_output_file and the row's settings dict
\* (KeyError if the row is gone)
WorkerPath(w, c) ==
  /\ ~closed
  /\ wk[w].pc = "path"
  /\ LET out == unique_output_path(save_folder, fs, wk[w].jid) IN
       /\ rows' = SetGauge(rows, wk[w].jid, 0)
       /\ current_output_file' = out
       /\ wk' = [wk EXCEPT
            ![w].audio_channels = get_audio_channels(c),
            ![w].bitrate = get_audio_bitrate(get_audio_channels(c)),
            ![w].out = out,
            ![w].pc = IF wk[w].idx \in DOMAIN rows THEN "spawn" ELSE "finally",
            ![w].settings = IF wk[w].idx \in DOMAIN rows
                            THEN rows[wk[w].idx].settings ELSE @]
  /\ UNCHANGED << selected, setVars, converting, cancel_event, process,
                  all_jobs_duration, done_duration, uiVars, uiq, mainpc,
                  closed, started, eng, orphans, envVars, nadds, nact, nui, lim >>

\* run_ffmpeg_with_progress up to Popen: the settings are the row's own unless it
\* is marked global, then the controls as they are now.  With video not skipped
\* get_hdr_info probes the source (ffprobe reports stream), and with limit_res
\* get_video_info does (ffprobe reports size).  Popen raises (launched
\* false) or starts ffmpeg, which creates its output file (-y: overwrites it)
\* unless it fails before it gets there (creates false).
WorkerSpawn(w, launched, creates, stream, size) ==
  /\ ~closed
  /\ wk[w].pc = "spawn"
  /\ LET eff == IF ~wk[w].settings.global THEN wk[w].settings
                ELSE get_current_settings(ctl)
         hdr == IF eff.skip_video THEN HdrDefault ELSE get_hdr_info(stream)
         sz  == IF eff.skip_video \/ ~eff.limit_res THEN << None, None >> ELSE size
         cmd == Command(eff, hdr, sz, wk[w].audio_channels, wk[w].bitrate)
     IN
       IF launched
       THEN /\ process' = w
            /\ eng' = [eng EXCEPT ![w] = [EngineInit EXCEPT !.st = "alive",
                                            !.out = wk[w].out, !.opened = creates]]
            /\ fs' = IF creates THEN fs \cup {wk[w].out} ELSE fs
            /\ orphans' = IF eng[w].st = "alive" THEN orphans + 1 ELSE orphans
            /\ wk' = [wk EXCEPT ![w].pc = "read", ![w].eff = eff,
                                ![w].hdr = hdr, ![w].size = sz, ![w].cmd = cmd]
       ELSE /\ ~creates
            /\ wk' = [wk EXCEPT ![w].pc = "result", ![w].eff = eff,
                                ![w].hdr = hdr, ![w].size = sz, ![w].cmd = cmd,
                                ![w].ok = FALSE, ![w].how = "launchfail"]
            /\ UNCHANGED << process, eng, orphans, fs >>
  /\ UNCHANGED << rows, selected, setVars, converting, cancel_event, current_output_file,
                  all_jobs_duration, done_duration, uiVars, uiq, mainpc,
                  closed, started, nadds, nact, nui, lim >>

\* the loop over process.stderr: it blocks for the next line or the end of the
\* stream.  A line (here: a progress line with elapsed time t; ffmpeg's time=
\* never goes back) is followed by the cancel check and then by the progress
\* values and the gauge update; the stream ends when ffmpeg is gone.
WorkerRead(w, t) ==
  /\ ~closed
  /\ wk[w].pc = "read"
  /\ \/ /\ eng[w].st = "alive"
        /\ UNCHANGED eng
        /\ IF cancel_event
             THEN wk' = [wk EXCEPT ![w].pc = "wait"] /\ UNCHANGED rows
           ELSE LET rp == RowProgress(t, wk[w].dur) IN
                /\ t >= wk[w].current_time
                /\ wk' = [wk EXCEPT
                     ![w].current_time = t,
                     ![w].row_progress = rp,
                     ![w].overall_progress =
                        OverallProgress(done_duration, t, all_jobs_duration, rp)]
                /\ rows' = SetGauge(rows, wk[w].jid, rp)
     \/ /\ eng[w].st = "exited"
        /\ wk' = [wk EXCEPT ![w].pc = "wait"]
        /\ UNCHANGED << eng, rows >>
  /\ UNCHANGED << selected, setVars, mainVars, uiVars, uiq, mainpc,
                  closed, started, orphans, envVars, nadds, nact, nui, lim >>

\* after the loop: with the event set, self.process.terminate() (an exception,
\* such as self.process being None, is swallowed); then
\* rc = self.process.wait() if self.process else -1, and the return value.
\* The step is taken when the process self.process refers to has exited.
WorkerWait(w) ==
  /\ ~closed
  /\ wk[w].pc = "wait"
  /\ LET e == IF cancel_event /\ process # None /\ eng[process].st = "alive"
              THEN Kill(eng, process) ELSE eng
         rc == IF process = None THEN -1 ELSE e[process].rc
     IN  /\ IF process = None THEN TRUE ELSE e[process].st = "exited"
         /\ eng' = e
         /\ wk' = [wk EXCEPT ![w].pc = "result",
                             ![w].ok = ~cancel_event /\ rc = 0,
                             ![w].how = IF cancel_event THEN "cancelled"
                                        ELSE IF rc = 0 THEN "rc0" ELSE "rcnz"]
  /\ UNCHANGED << rows, selected, setVars, mainVars, uiVars, uiq, mainpc,
                  closed, started, orphans, envVars, nadds, nact, nui, lim >>

\* the job was converted: the row gets its output file, status Done, gauge 100
ResultDone(w) ==
  /\ rows' = [i \in DOMAIN rows |->
                IF rows[i].jid = wk[w].jid
                THEN [rows[i] EXCEPT !.output_file = wk[w].out, !.gauge = 100]
                ELSE rows[i]]
  /\ done_duration' = done_duration + wk[w].dur
  /\ wk' = [wk EXCEPT ![w] = [NextIteration(@) EXCEPT
                        !.pc = "loop", !.idx = @ + 1,
                        !.res = Append(@, "Done"),
                        !.hows = Append(@, wk[w].how),
                        !.durs = Append(@, wk[w].dur)]]

\* the event is set: status Cancelled, gauge 100, break
ResultCancelled(w) ==
  /\ rows' = SetGauge(rows, wk[w].jid, 100)
  /\ wk' = [wk EXCEPT ![w] = [NextIteration(@) EXCEPT
                        !.pc = "finally",
                        !.res = Append(@, "Cancelled"),
                        !.hows = Append(@, wk[w].how),
                        !.durs = Append(@, wk[w].dur)]]
  /\ UNCHANGED done_duration

\* a faulty ResultFailed, which goes to the next row without posting a status
ResultFailedSilent(w) ==
  /\ UNCHANGED rows
  /\ done_duration' = done_duration + wk[w].dur
  /\ wk' = [wk EXCEPT ![w] = [NextIteration(@) EXCEPT !.pc = "loop", !.idx = @ + 1]]

\* a faulty ResultFailed, which ends the loop as a cancellation does
ResultFailedBreak(w) ==
  /\ UNCHANGED rows
  /\ done_duration' = done_duration + wk[w].dur
  /\ wk' = [wk EXCEPT ![w] = [NextIteration(@) EXCEPT
                        !.pc = "finally",
                        !.res = Append(@, "Failed"),
                        !.hows = Append(@, wk[w].how),
                        !.durs = Append(@, wk[w].dur)]]

\* neither: status Failed, and the loop goes on
ResultFailed(w) ==
  /\ UNCHANGED rows
  /\ done_duration' = done_duration + wk[w].dur
  /\ wk' = [wk EXCEPT ![w] = [NextIteration(@) EXCEPT
                        !.pc = "loop", !.idx = @ + 1,
                        !.res = Append(@, "Failed"),
                        !.hows = Append(@, wk[w].how),
                        !.durs = Append(@, wk[w].dur)]]

\* the three outcomes of a job in queue_worker
WorkerResult(w) ==
  /\ ~closed
  /\ wk[w].pc = "result"
  /\ IF wk[w].ok /\ ~cancel_event THEN ResultDone(w)
     ELSE IF cancel_event THEN ResultCancelled(w)
     ELSE ResultFailed(w)
  /\ UNCHANGED << selected, setVars, converting, cancel_event, process,
                  current_output_file, all_jobs_duration, uiVars, uiq, mainpc,
                  closed, started, eng, orphans, envVars, nadds, nact, nui, lim >>

\* a faulty finally clause, without wx.CallAfter(self.enable_interface) and
\* without the label
WorkerFinallyNoEnable(w) ==
  /\ ~closed
  /\ wk[w].pc = "finally"
  /\ converting' = FALSE
  /\ process' = None
  /\ wk' = [wk EXCEPT ![w] = [WorkerInit EXCEPT !.pc = "done", !.cout = wk[w].cout]]
  /\ UNCHANGED << rows, selected, setVars, cancel_event, current_output_file,
                  all_jobs_duration, done_duration, uiVars, uiq, mainpc,
                  closed, started, eng, orphans, envVars, nadds, nact, nui, lim >>

\* the finally clause of queue_worker
WorkerFinally(w) ==
  /\ ~closed
  /\ wk[w].pc = "finally"
  /\ converting' = FALSE
  /\ process' = None
  /\ uiq' = Append(uiq, [kind |-> "finish"])
  /\ wk' = [wk EXCEPT ![w] = [WorkerInit EXCEPT !.pc = "done", !.cout = wk[w].cout]]
  /\ UNCHANGED << rows, selected, setVars, cancel_event, current_output_file,
                  all_jobs_duration, done_duration, uiVars, mainpc,
                  closed, started, eng, orphans, envVars, nadds, nact, nui, lim >>

Worker(w) ==
  \/ WorkerStart(w)
  \/ WorkerLoop(w)
  \/ \E c \in lim.chans : WorkerPath(w, c)
  \/ \E launched \in BOOLEAN, creates \in BOOLEAN,
        stream \in lim.streams, size \in lim.sizes :
          WorkerSpawn(w, launched, creates, stream, size)
  \/ \E t \in lim.times : WorkerRead(w, t)
  \/ WorkerWait(w)
  \/ WorkerResult(w)
  \/ WorkerFinally(w)

\* ------------------------------------------------------- the environment
EngineRest == << rows, selected, setVars, mainVars, uiVars, uiq, mainpc,
                 closed, wk, started, orphans, nadds, nact, nui, lim >>

\* ffmpeg exits by itself; exit code 0 only after it wrote its output
EngineExit(w, rc) ==
  /\ ~closed
  /\ eng[w].st = "alive"
  /\ rc = 0 => eng[w].opened
  /\ eng' = [eng EXCEPT ![w] = [EngineInit EXCEPT !.st = "exited", !.rc = rc]]
  /\ UNCHANGED << fs, EngineRest >>

Engine(w) ==
  \/ \E rc \in {0, 1} : EngineExit(w, rc)

\* the source file of a queued job is deleted or moved away by someone
SourceDeleted(r) ==
  /\ ~closed
  /\ r \in DOMAIN rows
  /\ << rows[r].jid, 0 >> \in fs
  /\ fs' = fs \ {<< rows[r].jid, 0 >>}
  /\ UNCHANGED EngineRest
  /\ UNCHANGED eng

\* the save folder is deleted or renamed, with what it holds
SaveFolderRemoved ==
  /\ ~closed
  /\ save_folder = "dir"
  /\ save_folder' = "gone"
  /\ fs' = {f \in fs : f[2] >= 0}
  /\ UNCHANGED << rows, selected, ctl, global_settings, before_sel, mainVars, uiVars,
                  uiq, mainpc, closed, wk, started, eng, orphans, nadds, nact, nui, lim >>

\* some program creates a file that has the name of the n-th output candidate
\* of the queued job j, where the outputs go now (counted with the actions of
\* the user)
FileAppears(j, n) ==
  /\ ~closed
  /\ Act
  /\ \E i \in DOMAIN rows : rows[i].jid = j
  /\ Candidate(save_folder = "dir", j, n) \notin fs
  /\ fs' = fs \cup {Candidate(save_folder = "dir", j, n)}
  /\ UNCHANGED << rows, selected, setVars, mainVars, uiVars, uiq, mainpc,
                  closed, wk, started, eng, orphans, nadds, nui, lim >>

\* ----------------------------------------------------------- specifications
\* the queue: adding files, the start/cancel button, closing, and the run
NextQueue ==
  \/ \E d \in lim.durs, n \in TrackCounts : AddFile(d, n)
  \/ OnClear
  \/ OnConvert
  \/ CancelFinish
  \/ OnClose
  \/ ProcessCallback
  \/ \E w \in Workers : Worker(w)
  \/ \E w \in Workers : Engine(w)
  \/ \E r \in DOMAIN rows : SourceDeleted(r)

\* everything the user can do
Next ==
  \/ NextQueue
  \/ OnRemoveSelected
  \/ UserEdit

Spec == Init /\ [][Next]_vars

\* one file, far enough for a removal after a cancel
InitRemove == Constructed /\ Limits(DRuns, DJobs, DActs, DEdits)
SpecRemove == InitRemove /\ [][Next]_vars

\* the queue alone
InitQueue == Constructed /\ Limits(QRuns, QJobs, QActs, 0)
SpecQueue == InitQueue /\ [][NextQueue]_vars

\* the queue alone, far enough for a start after a cancel
InitRace == Constructed /\ Limits(RRuns, RJobs, RActs, 0)
SpecRace == InitRace /\ [][NextQueue]_vars

\* the threads are scheduled, a posted callback and the rest of
\* cancel_conversion run, and every ffmpeg process exits in the end
Fairness ==
  /\ \A w \in Workers : WF_vars(Worker(w)) /\ WF_vars(Engine(w))
  /\ WF_vars(ProcessCallback)
  /\ WF_vars(CancelFinish)

\* the queue alone, fair
SpecFair == InitQueue /\ [][NextQueue]_vars /\ Fairness

\* the queue alone with a user who never asks for a cancellation: the button is
\* pressed only to start, and the window is not closed
NextNoCancel ==
  \/ \E d \in lim.durs, n \in TrackCounts : AddFile(d, n)
  \/ OnClear
  \/ ~converting /\ OnConvert
  \/ ProcessCallback
  \/ \E w \in Workers : Worker(w)
  \/ \E w \in Workers : Engine(w)
  \/ \E r \in DOMAIN rows : SourceDeleted(r)

SpecNoCancel == InitQueue /\ [][NextNoCancel]_vars /\ Fairness

\* the list and the settings panel, with no run
NextSettings ==
  \/ \E d \in lim.durs, n \in TrackCounts : AddFile(d, n)
  \/ OnRemoveSelected
  \/ OnClear
  \/ UserEdit

\* the list and the settings panel with no run, far enough for two jobs to get
\* overrides one after the other
InitOverride == Constructed /\ Limits(0, OJobs, OActs, OEdits)
SpecOverride == InitOverride /\ [][NextSettings]_vars

\* one run, with a save folder and with files that are in the way of the outputs
NextPaths ==
  \/ \E d \in lim.durs, n \in TrackCounts : AddFile(d, n)
  \/ BrowseSaveFolder
  \/ SaveFolderRemoved
  \/ \E j \in 1..lim.jobs, n \in 1..MaxSuffix : FileAppears(j, n)
  \/ ~converting /\ OnConvert
  \/ ProcessCallback
  \/ \E w \in Workers : Worker(w)
  \/ \E w \in Workers : Engine(w)

InitPaths == Constructed /\ Limits(1, FJobs, FActs, 0)
SpecPaths == InitPaths /\ [][NextPaths]_vars

\* one run over files added and settings chosen before the start; the settings
\* are those that shape the ffmpeg command, the sources are of several kinds
NextCommand ==
  \/ \E d \in lim.durs, n \in TrackCounts : ~converting /\ AddFile(d, n)
  \/ ~converting /\ OnLimitRes
  \/ \E m \in 0..2 : ~converting /\ OnTonemapping(m)
  \/ ~converting /\ OnSkipAudio
  \/ ~converting /\ OnSkipVideo
  \/ ~converting /\ OnConvert
  \/ ProcessCallback
  \/ \E w \in Workers : Worker(w)
  \/ \E w \in Workers : Engine(w)

InitCommand ==
  /\ Constructed
  /\ lim = [runs |-> 1, jobs |-> CJobs, acts |-> CActs, edits |-> CEdits,
            durs |-> Durations, times |-> LineTimes, chans |-> ProbedChannels,
            streams |-> ProbedStreams, sizes |-> ProbedSizes, codecs |-> AudioCodecs]
SpecCommand == InitCommand /\ [][NextCommand]_vars

\* one run over a file added before the start, with skip_audio set or not, and
\* with audio tracks of several codecs and channel counts
NextAudio ==
  \/ \E d \in lim.durs, n \in TrackCounts : ~converting /\ AddFile(d, n)
  \/ ~converting /\ OnSkipAudio
  \/ ~converting /\ OnConvert
  \/ ProcessCallback
  \/ \E w \in Workers : Worker(w)
  \/ \E w \in Workers : Engine(w)

InitAudio ==
  /\ Constructed
  /\ lim = [runs |-> 1, jobs |-> AJobs, acts |-> AActs, edits |-> AEdits,
            durs |-> Durations, times |-> LineTimes, chans |-> ProbedChannels,
            streams |-> VideoStreams, sizes |-> VideoSizes, codecs |-> ProbedCodecs]
SpecAudio == InitAudio /\ [][NextAudio]_vars

InitSettings == Constructed /\ Limits(0, SJobs, SActs, SEdits)
SpecSettings == InitSettings /\ [][NextSettings]_vars

\* one run that nobody cancels, over files of several durations and with
\* progress lines at several elapsed times
InitProgress ==
  /\ Constructed
  /\ lim = [runs |-> 1, jobs |-> PJobs, acts |-> PActs, edits |-> 0,
            durs |-> ProgressDurations, times |-> ProgressTimes, chans |-> Channels,
            streams |-> VideoStreams, sizes |-> VideoSizes, codecs |-> AudioCodecs]
NextProgress ==
  \/ \E d \in lim.durs, n \in TrackCounts : AddFile(d, n)
  \/ ~converting /\ OnConvert
  \/ ProcessCallback
  \/ \E w \in Workers : Worker(w)
  \/ \E w \in Workers : Engine(w)

SpecProgress == InitProgress /\ [][NextProgress]_vars

\* ------------------------------------------------------------------ claims
Terminal == {"Done", "Failed", "NoFile", "NoAudio"}

\* C1: in every interleaving at most one queue worker has started and not yet
\* finished, and at most one ffmpeg process is alive.
C1_OneRunOneEngine ==
  /\ Cardinality({w \in Workers : Alive(w)}) <= 1
  /\ Cardinality({w \in Workers : eng[w].st = "alive"}) + orphans <= 1

\* C2: once cancel was requested while a worker's ffmpeg was running, that
\* worker stays at that job and the status it posts for it is Cancelled.
C2_CancelledWhileRunning ==
  \A w \in Workers :
    wk[w].cidx # None =>
      /\ wk[w].idx = wk[w].cidx
      /\ Len(wk[w].res) >= wk[w].cidx => wk[w].res[wk[w].cidx] = "Cancelled"

\* C3: once cancel_conversion has returned and no worker is left, the output
\* file of the job that had its output path when cancel was requested is gone.
C3_CancelledOutputRemoved ==
  (mainpc = "idle" /\ ~closed /\ \A w \in Workers : ~Alive(w)) =>
     \A w \in Workers : wk[w].cout # NoPath => wk[w].cout \notin fs

\* the jobs of the list with what a run reads of them: settings and audio track
JobState(rs) == {<< rs[i].jid, rs[i].settings, rs[i].track >> : i \in DOMAIN rs}

\* C8: while a queue worker has started and not yet finished, no step removes
\* a row from the list (closing the window apart).
C8_NoRemovalDuringRun ==
  [][((\E w \in Workers : Alive(w)) /\ ~closed') =>
        /\ Len(rows') >= Len(rows)
        /\ \A i \in DOMAIN rows : rows'[i].jid = rows[i].jid]_vars

\* C9: while converting is true no step adds a row to the list.
C9_NoAddWhileConverting ==
  [][converting => Len(rows') <= Len(rows)]_vars

\* C10: while converting is true no step changes the settings or the audio
\* track of a job that stays in the list.
C10_JobsFrozenDuringRun ==
  [][(converting /\ ~closed') =>
        \A i \in DOMAIN rows :
          << rows[i].jid, rows[i].settings, rows[i].track >> \in JobState(rows')]_vars

\* worker w is at the head of its loop with a row to handle whose source file
\* is gone or which has no audio track selected
SkipCase(w) ==
  /\ wk[w].pc = "loop" /\ ~cancel_event
  /\ wk[w].idx <= wk[w].nkeys /\ wk[w].idx \in DOMAIN rows
  /\ \/ << rows[wk[w].idx].jid, 0 >> \notin fs
     \/ rows[wk[w].idx].track = None

\* C5: the step worker w takes in SkipCase posts the Skipped status (no file /
\* no audio) and gauge 0 for that row, assigns no output path, spawns no
\* process, touches no file, and leaves w at the head of the loop for the next row.
C5_SkipStep ==
  [][\A w \in Workers :
       (SkipCase(w) /\ wk'[w] # wk[w] /\ ~closed') =>
          /\ wk'[w].res = Append(wk[w].res,
                                 IF << rows[wk[w].idx].jid, 0 >> \notin fs
                                 THEN "NoFile" ELSE "NoAudio")
          /\ rows'[wk[w].idx].gauge = 0
          /\ rows'[wk[w].idx].output_file = rows[wk[w].idx].output_file
          /\ wk'[w].out = NoPath
          /\ current_output_file' = current_output_file
          /\ process' = process /\ eng' = eng /\ fs' = fs
          /\ wk'[w].pc = "loop" /\ wk'[w].idx = wk[w].idx + 1]_vars

\* a run went on to its second row after it skipped the first
C5_Witness ==
  \E w \in Workers :
    /\ wk[w].pc = "spawn" /\ wk[w].idx = 2
    /\ wk[w].res \in {<< "NoFile" >>, << "NoAudio" >>}
    /\ rows[1].gauge = 0 /\ rows[1].output_file = NoPath

\* worker w is executing the job at position idx (from the output path to the result)
Executing(w) == wk[w].pc \in {"path", "spawn", "read", "wait", "result"}

\* C6: within a run the position only moves forward one row at a time, and
\* while the job at a position is executed every earlier position of that run
\* has its terminal status (Done, Failed or Skipped).
C6_InOrder ==
  /\ [](\A w \in Workers :
          Executing(w) =>
            /\ Len(wk[w].res) = wk[w].idx - 1
            /\ \A i \in 1..(wk[w].idx - 1) : wk[w].res[i] \in Terminal)
  /\ [][\A w \in Workers :
          (Alive(w) /\ Alive(w)') =>
             /\ wk'[w].idx \in {wk[w].idx, wk[w].idx + 1}
             /\ Executing(w)' /\ ~Executing(w) => wk'[w].idx = wk[w].idx]_vars

\* a run executes its second job after the first one failed
C6_Witness ==
  \E w \in Workers :
    /\ wk[w].pc = "read" /\ wk[w].idx = 2
    /\ wk[w].res = << "Failed" >>

\* C4: with no cancellation requested, a job whose ffmpeg could not be launched
\* or exited with a nonzero code gets the status Failed, every status posted is
\* terminal, and a run that started reaches its end with a status posted for
\* every row that was in the list when it took its snapshot.
C4_FailuresDoNotStopRun ==
  /\ [](\A w \in Workers : \A i \in 1..Len(wk[w].res) :
          /\ wk[w].res[i] \in Terminal
          /\ wk[w].hows[i] \in {"launchfail", "rcnz"} => wk[w].res[i] = "Failed")
  /\ \A w \in Workers :
       (wk[w].pc = "start") ~> (wk[w].pc = "finally" /\ Len(wk[w].res) = wk[w].nkeys)

\* a run of two jobs is over, the first failed and the second was converted
C4_Witness ==
  \E w \in Workers :
    /\ wk[w].pc = "finally" /\ ~cancel_event
    /\ wk[w].res = << "Failed", "Done" >>

\* no worker is left, nothing is pending on the main thread
RunsOver ==
  /\ started > 0 /\ ~closed
  /\ mainpc = "idle" /\ uiq = << >>
  /\ \A w \in Workers : ~Alive(w)

\* the state on_convert left is undone
Restored ==
  /\ ~converting
  /\ btn_label = "start"
  /\ btns_enabled /\ qpmode_enabled

\* C7: once a queue worker has started, the window is closed or a state is
\* reached where every worker has finished, no callback is pending, converting
\* is false, the button says start and the controls are enabled; whenever the
\* workers and callbacks are through, the window is in that state; and the step
\* that ends a worker clears converting and posts the callback that restores
\* the button and the controls.
C7_RunEnds ==
  /\ (\E w \in Workers : wk[w].pc = "start") ~> (closed \/ (RunsOver /\ Restored))
  /\ [](RunsOver => Restored)
  /\ [][\A w \in Workers :
          (Alive(w) /\ ~Alive(w)' /\ ~closed') =>
             ~converting' /\ uiq' = Append(uiq, [kind |-> "finish"])]_vars

\* a cancelled run is over and the window is back in its idle state
C7_Witness == RunsOver /\ Restored /\ cancel_event

\* the six values of a settings dict that reach the ffmpeg command line
Values(s) == << s.encode_mode, s.qp_slider, s.limit_res, s.tonemapping,
                s.skip_video, s.skip_audio >>

\* the queue-wide settings: the controls while no row is selected, and the
\* snapshot on_item_select took of them while rows are selected and edited
GlobalNow == IF selected = {} THEN get_current_settings(ctl) ELSE global_settings

\* worker w resolves the settings of its job in this step
Resolves(w) == wk[w].pc = "spawn" /\ wk'[w].pc \in {"read", "result"}

\* C11: when a worker resolves the settings of its job, a job with an override
\* gets exactly its override, and a job without one gets the queue-wide
\* settings of that moment, never values that are only in the override of
\* another job of the list.
C11_SettingsResolution ==
  [][\A w \in Workers :
       Resolves(w) =>
         /\ ~wk[w].settings.global => wk'[w].eff = wk[w].settings
         /\ wk[w].settings.global =>
              /\ Values(wk'[w].eff) = Values(get_current_settings(ctl))
              /\ ~\E i \in DOMAIN rows :
                    /\ rows[i].jid # wk[w].jid
                    /\ ~rows[i].settings.global
                    /\ Values(rows[i].settings) = Values(wk'[w].eff)
                    /\ Values(GlobalNow) # Values(wk'[w].eff)]_vars

\* an on_item_deselect that empties the selection
LastDeselect == selected # {} /\ selected' = {} /\ nui' # nui

\* C12: when the last selected row is deselected, every shared control has the
\* value it had when the first row of the selection was selected, whatever was
\* selected, edited and deselected in between.
C12_DeselectRestoresGlobals ==
  [][LastDeselect => ctl' = before_sel]_vars

\* the gauge of the job worker w executes, if its row is still in the list
GaugeOf(rs, w) == {rs[i].gauge : i \in {j \in DOMAIN rs : rs[j].jid = wk[w].jid}}

\* C13: within the execution of one job, with elapsed times that do not go
\* back, every value delivered to the job's gauge is an integer from 0 to 100
\* and no delivered value is below the one before it: the 0 at the start, the
\* value of each progress line (100 once the elapsed time passes the duration,
\* and computed with total_duration 1 when the duration is 0), and the 100 of
\* a job that ends Done or Cancelled.
C13_RowProgressMonotone ==
  /\ [](\A w \in Workers : wk[w].row_progress \in 0..100)
  /\ [][\A w \in Workers :
          /\ (Executing(w) /\ Executing(w)' /\ wk'[w].jid = wk[w].jid) =>
                /\ wk'[w].current_time >= wk[w].current_time
                /\ wk'[w].row_progress >= wk[w].row_progress
                /\ wk'[w].row_progress # wk[w].row_progress =>
                     \A g \in GaugeOf(rows', w) : g = wk'[w].row_progress
          /\ (wk[w].pc = "result" /\ wk'[w].pc # "result" /\ ~closed'
                /\ wk'[w].res[Len(wk'[w].res)] \in {"Done", "Cancelled"}) =>
                \A g \in GaugeOf(rows', w) : g = 100]_vars

\* a job of 50 s is at 60 s of elapsed time and its gauge shows 100
C13_Witness ==
  \E w \in Workers :
    /\ wk[w].pc = "read" /\ wk[w].dur = 50 /\ wk[w].current_time = 60
    /\ GaugeOf(rows, w) = {100}

\* C14: while a worker executes a job, every row after it in the list, which
\* the run has not reached yet, shows progress 0: nothing is left over from
\* an earlier run.
C14_GaugesResetAtRunStart ==
  \A w \in Workers :
    Executing(w) => \A i \in DOMAIN rows : i > wk[w].idx => rows[i].gauge = 0

\* worker w handles a progress line in this step
ReadsLine(w) == wk[w].pc = "read" /\ wk'[w].pc = "read" /\ wk'[w] # wk[w]

\* C15: the whole-queue progress computed for a progress line at elapsed
\* time e is min(100, floor((done_duration + e) * 100 / all_jobs_duration)),
\* all_jobs_duration being the sum of the durations at the start of the run;
\* when that sum is 0 the job's own progress is taken and nothing is divided.
C15_OverallProgressExact ==
  [][\A w \in Workers :
       ReadsLine(w) =>
         wk'[w].overall_progress =
           IF all_jobs_duration > 0
           THEN LET p == ((done_duration + wk'[w].current_time) * 100) \div all_jobs_duration
                IN  IF p < 100 THEN p ELSE 100
           ELSE wk'[w].row_progress]_vars

\* worker w marks its job Done in this step
MarksDone(w) == wk[w].pc = "result" /\ wk'[w].res = Append(wk[w].res, "Done")

\* C16: the step that marks a job Done is taken only when the ffmpeg process
\* of that job has exited with code 0 and no cancellation is requested, and
\* it sets the job's gauge to 100 and stores the job's output path in its row.
C16_DoneOnlyOnSuccess ==
  [][\A w \in Workers :
       MarksDone(w) =>
         /\ eng[w].st = "exited" /\ eng[w].rc = 0
         /\ ~cancel_event
         /\ wk[w].out # NoPath
         /\ \A i \in DOMAIN rows' :
              rows'[i].jid = wk[w].jid =>
                rows'[i].gauge = 100 /\ rows'[i].output_file = wk[w].out]_vars

\* worker w calls unique_output_path in this step
TakesPath(w) == wk[w].pc = "path" /\ wk'[w].pc # "path" /\ ~closed'

\* C17: the path unique_output_path returns does not exist when it is called
\* and is not the source; it is a candidate of the save folder when that is a
\* directory, else of the source's folder; it is <name>_conv.mp4 when that
\* does not exist, else the candidate with the lowest number from 2 on that
\* does not exist.  The path is thus fixed by the folder and the files on
\* disk: a second call with the same files returns the same path.
C17_UniqueOutputPath ==
  [][\A w \in Workers :
       TakesPath(w) =>
         LET inFolder == save_folder = "dir"
             src == wk[w].jid
             out == wk'[w].out
         IN  /\ out \notin fs
             /\ out # << src, 0 >>
             /\ \E n \in 1..(Cardinality(fs) + 1) :
                  /\ out = Candidate(inFolder, src, n)
                  /\ \A k \in 1..(n - 1) : Candidate(inFolder, src, k) \in fs]_vars

\* with <name>_conv.mp4 and <name>_2.mp4 in the save folder, the job got <name>_3.mp4
C17_Witness ==
  \E w \in Workers :
    /\ wk[w].pc = "spawn" /\ save_folder = "dir"
    /\ wk[w].out = << wk[w].jid, -3 >>
    /\ {<< wk[w].jid, -1 >>, << wk[w].jid, -2 >>} \subseteq fs

\* the table of bit rates by channel count
InTable(c, bitrate) ==
  /\ c <= 1 => bitrate = "128k"
  /\ c = 2 => bitrate = "192k"
  /\ (3 <= c /\ c <= 6) => bitrate = "384k"
  /\ c = 7 => bitrate = "256k"
  /\ c >= 8 => bitrate = "512k"

ChannelCounts == (0 - 2)..10

\* C18: get_audio_bitrate(c) is 128k for c <= 1, 192k for c = 2, 384k for c
\* from 3 to 6, 256k for c = 7 and 512k for c >= 8, for every c, and that is
\* the bit rate a worker takes for the channel count of its job.
C18_BitrateTable ==
  /\ \A c \in ChannelCounts : InTable(c, get_audio_bitrate(c))
  /\ \A w \in Workers :
       wk[w].pc \in {"spawn", "read", "wait", "result"} =>
         InTable(wk[w].audio_channels, wk[w].bitrate)

\* a job with a 7-channel track got 256k
C18_Witness ==
  \E w \in Workers :
    wk[w].pc = "spawn" /\ wk[w].audio_channels = 7 /\ wk[w].bitrate = "256k"

\* worker w has built the ffmpeg command of its job, with a video encoder
Encodes(w) == wk[w].pc \in {"read", "wait", "result"} /\ ~wk[w].eff.skip_video

\* the filters of a command before the scale filter
BaseFilters(vf) ==
  IF vf # << >> /\ vf[Len(vf)] = "scale" THEN SubSeq(vf, 1, Len(vf) - 1) ELSE vf

\* C19: with video not skipped, the command has the tone-mapping chain when
\* the tone-map mode is forced on, only the pixel-format filter when it is
\* forced off, and in automatic mode the chain exactly when the source's
\* classification recommends it (Dolby Vision, HDR10+ and HDR10 / PQ do; HLG,
\* BT.2020 SDR and SDR do not); there is no third form.
C19_TonemapDecision ==
  \A w \in Workers :
    Encodes(w) =>
      LET base == BaseFilters(wk[w].cmd.vf)
          mode == wk[w].eff.tonemapping
      IN  /\ base \in {TonemapChain, PixelFormat}
          /\ mode = 2 => base = PixelFormat
          /\ mode = 1 => base = TonemapChain
          /\ mode = 0 => (base = TonemapChain <=> wk[w].hdr.requires_tonemap)
          /\ wk[w].hdr.requires_tonemap <=>
               wk[w].hdr.type \in {"Dolby Vision", "HDR10+", "HDR10 / PQ"}

\* a source classified HDR10 / PQ is encoded with tone mapping forced off:
\* only the pixel-format filter
C19_Witness ==
  \E w \in Workers :
    /\ Encodes(w) /\ wk[w].eff.tonemapping = 2
    /\ wk[w].hdr.type = "HDR10 / PQ" /\ wk[w].hdr.requires_tonemap
    /\ wk[w].cmd.vf = PixelFormat

\* C20: the command ends with the scale filter exactly when video is not
\* skipped, limit_res is set and the probed width is above 1920 or the probed
\* height above 1080; with unknown dimensions there is no scale filter.
C20_ScaleFilter ==
  \A w \in Workers :
    wk[w].pc \in {"read", "wait", "result"} =>
      LET vf == wk[w].cmd.vf
          scaled == vf # << >> /\ vf[Len(vf)] = "scale"
          known == wk[w].size[1] # None /\ wk[w].size[2] # None
      IN  /\ scaled <=> /\ ~wk[w].eff.skip_video
                        /\ wk[w].eff.limit_res
                        /\ known
                        /\ (wk[w].size[1] > 1920 \/ wk[w].size[2] > 1080)
          /\ \A i \in 1..(Len(vf) - 1) : vf[i] # "scale"

\* with limit_res set a source of 1920 x 1200 gets the scale filter
C20_Witness ==
  \E w \in Workers :
    /\ wk[w].pc = "read" /\ wk[w].eff.limit_res
    /\ wk[w].size = << 1920, 1200 >>
    /\ wk[w].cmd.vf = PixelFormat \o ScaleFilter

\* the video arguments of a command
VideoArgs(cmd) == << cmd.video, cmd.vf, cmd.rate >>

\* worker w has built the ffmpeg command of its job
Built(w) == wk[w].pc \in {"read", "wait", "result"}

C22_AacPassThrough ==
  \A w \in Workers :
    Built(w) /\ ~wk[w].eff.skip_audio =>
      \A i \in DOMAIN rows :
        rows[i].jid = wk[w].jid =>
          IF rows[i].codec = "aac"
          THEN wk[w].cmd.audio = << "copy" >>
          ELSE /\ Len(wk[w].cmd.audio) = 3
               /\ wk[w].cmd.audio[1] = "aac"
               /\ wk[w].cmd.audio[2] = wk[w].audio_channels
               /\ InTable(wk[w].audio_channels, wk[w].cmd.audio[3])

\* the step is the os.remove of cancel_conversion (reached from the button, or
\* from on_close while converting)
CancelRemoves == (mainpc = "cancel" /\ mainpc' = "idle") \/ (converting /\ ~closed /\ closed')

\* C23: cancel_conversion never removes the output file recorded for a job
\* that ended Done.
C23_DoneOutputKept ==
  [][CancelRemoves =>
       \A i \in DOMAIN rows :
         (rows[i].output_file # NoPath /\ rows[i].output_file \in fs)
           => rows[i].output_file \in fs']_vars

\* worker w launches an ffmpeg process in this step
Launches(w) == wk[w].pc = "spawn" /\ wk'[w].pc = "read"

\* C24: no worker launches an ffmpeg process while a cancellation is requested.
\* (In one run the event stays set once it is set, and a worker that is about
\* to launch has no process of its own running.)
C24_NoLaunchAfterCancel ==
  [][\A w \in Workers : Launches(w) => ~cancel_event]_vars

\* the durations of the first k jobs worker w is through with that ended Done
\* or Failed, summed
RECURSIVE DoneSum(_, _)
DoneSum(w, k) ==
  IF k = 0 THEN 0
  ELSE DoneSum(w, k - 1)
         + (IF wk[w].res[k] \in {"Done", "Failed"} THEN wk[w].durs[k] ELSE 0)

\* C25: while the worker of the run started last is at work, done_duration is
\* the sum of the durations of its jobs that ended Done or Failed (0 when it
\* starts; skipped and cancelled jobs add nothing).
C25_DoneDuration ==
  (started > 0 /\ Alive(started)) =>
     done_duration = DoneSum(started, Len(wk[started].res))

\* the step is one of the settings handlers, which end with
\* save_settings_to_sel_rows_and_update_list
SavesSettings == ctl' # ctl /\ selected' = selected

\* C26: no step changes the settings of a job that is not selected, and a
\* settings handler gives every selected job the settings the controls then
\* show, the other jobs keeping theirs.
C26_OnlySelectedChange ==
  [][/\ \A i \in DOMAIN rows, k \in DOMAIN rows' :
          (rows'[k].jid = rows[i].jid /\ i \notin selected)
            => rows'[k].settings = rows[i].settings
     /\ SavesSettings =>
          \A i \in selected : rows'[i].settings = get_current_settings(ctl')]_vars

\* two jobs with overrides that differ, of which one is not selected any more
C26_Witness ==
  \E i, k \in DOMAIN rows :
    /\ i \notin selected
    /\ ~rows[i].settings.global /\ ~rows[k].settings.global
    /\ rows[i].settings # rows[k].settings

\* the quality value of settings s is in the range of its encode mode
InRange(s) ==
  /\ s.encode_mode \in {0, 1}
  /\ s.encode_mode = 0 => (14 <= s.qp_slider /\ s.qp_slider <= 30)
  /\ s.encode_mode = 1 => (2 <= s.qp_slider /\ s.qp_slider <= 25)

\* C27: the controls, the global settings saved at a selection and the
\* override of every job have a quality value in the range of their encode
\* mode: 14..30 in constant-quality mode, 2..25 in constant-bitrate mode.
C27_QualityInRange ==
  /\ InRange(ctl)
  /\ global_settings # RowSettingsInit => InRange(global_settings)
  /\ \A i \in DOMAIN rows : ~rows[i].settings.global => InRange(rows[i].settings)

\* a job keeps a bitrate override of 25 after its deselection has put the
\* controls back to constant quality
C27_Witness ==
  /\ selected = {}
  /\ ctl.encode_mode = 0
  /\ \E i \in DOMAIN rows :
       /\ ~rows[i].settings.global
       /\ rows[i].settings.encode_mode = 1 /\ rows[i].settings.qp_slider = 25

\* C28: a job that has its own settings keeps having its own settings for as
\* long as it is in the list.
C28_OverrideStays ==
  [][\A i \in DOMAIN rows, k \in DOMAIN rows' :
       (rows'[k].jid = rows[i].jid /\ ~rows[i].settings.global)
         => ~rows'[k].settings.global]_vars

\* a job has its own settings, nothing is selected and the controls show
\* other settings than the job's
C28_Witness ==
  /\ selected = {}
  /\ \E i \in DOMAIN rows :
       ~rows[i].settings.global /\ rows[i].settings # get_current_settings(ctl)

====
